---- MODULE Spec2Model ----
(***************************************************************************)
(* crc32c-cli (src/main.rs): the CRC32C of files, read in blocks of        *)
(* BLOCK_SIZE bytes by the threads of a scoped thread pool, the blocks'    *)
(* checksums combined in offset order; and the line-by-line checksum of    *)
(* stdin when no path is given.                                            *)
(*                                                                         *)
(* A byte is a number in 0..255, a file a sequence of bytes.  A u32 is the *)
(* pair <<high 16 bits, low 16 bits>>: all 32 bits are kept, in two halves *)
(* that each fit TLC's integers.                                           *)
(***************************************************************************)
EXTENDS Integers, Sequences, FiniteSets, TLC

(***************************************************************************)
(* Bounds of the model.                                                    *)
(***************************************************************************)
\* BLOCK_SIZE in model bytes (16 MiB in the program).
BlockUnits == 2
\* The largest --threads value explored.
MaxThreads == 2
\* The longest file, in bytes.
MaxFileLen == 5
\* The most bytes the files of an invocation with several paths hold together.
MaxMultiBytes == 2
\* The most paths of one invocation.
MaxPaths == 2
\* The most lines on stdin.
MaxLines == 2

\* The byte values files and lines are made of: zero, a non-zero byte, and
\* the line feed that ends a line of stdin.
ByteVals == {0, 255}
LineFeed == 10

BLOCK_SIZE == BlockUnits

Min(a, b) == IF a < b THEN a ELSE b

(***************************************************************************)
(* CRC32C as the crc32c crate computes it: the reflected Castagnoli        *)
(* polynomial, register preset to all ones and inverted at the end.        *)
(***************************************************************************)
Half == 2^16
\* 0x82F63B78, the reflected polynomial, as its two halves.
CASTAGNOLI_POLY == <<33526, 15224>>

\* Bitwise exclusive or, of two bits' worth, of four, and of sixteen.
XorBit == [a \in 0..1 |-> [b \in 0..1 |-> (a + b) % 2]]
XorNibble ==
    [a \in 0..15 |-> [b \in 0..15 |->
        XorBit[a % 2][b % 2]
        + 2 * XorBit[(a \div 2) % 2][(b \div 2) % 2]
        + 4 * XorBit[(a \div 4) % 2][(b \div 4) % 2]
        + 8 * XorBit[a \div 8][b \div 8]]]
Xor16(a, b) ==
    XorNibble[a % 16][b % 16]
    + 16 * XorNibble[(a \div 16) % 16][(b \div 16) % 16]
    + 256 * XorNibble[(a \div 256) % 16][(b \div 256) % 16]
    + 4096 * XorNibble[a \div 4096][b \div 4096]

Xor32(a, b) == <<Xor16(a[1], b[1]), Xor16(a[2], b[2])>>
Not32(x) == <<Half - 1 - x[1], Half - 1 - x[2]>>
Shr1(x) == <<x[1] \div 2, (x[2] \div 2) + (x[1] % 2) * (Half \div 2)>>
Shr8(x) == <<x[1] \div 256, (x[2] \div 256) + (x[1] % 256) * 256>>

\* k steps of the bitwise register: shift right, xor the polynomial in when
\* a one falls out.
RECURSIVE ShiftBits(_, _)
ShiftBits(reg, k) ==
    IF k = 0 THEN reg
    ELSE ShiftBits(IF reg[2] % 2 = 1 THEN Xor32(Shr1(reg), CASTAGNOLI_POLY)
                   ELSE Shr1(reg), k - 1)

\* The byte table of the software implementation.
CrcTable == [b \in 0..255 |-> ShiftBits(<<0, b>>, 8)]

UpdateByte(reg, byte) == Xor32(CrcTable[Xor16(reg[2] % 256, byte)], Shr8(reg))

RECURSIVE UpdateReg(_, _)
UpdateReg(reg, data) ==
    IF data = <<>> THEN reg
    ELSE UpdateReg(UpdateByte(reg, Head(data)), Tail(data))

\* crc32c::crc32c_append(crc, data): continue the checksum crc over data.
crc32c_append(crc, data) == Not32(UpdateReg(Not32(crc), data))

\* crc32c::crc32c(data)
crc32c_of(data) == crc32c_append(<<0, 0>>, data)

\* The register after len zero bytes, with no preset and no inversion: the
\* operator crc32c_combine raises to the power len.
RECURSIVE ZeroBytes(_, _)
ZeroBytes(reg, len) ==
    IF len = 0 THEN reg ELSE ZeroBytes(UpdateByte(reg, 0), len - 1)

\* crc32c::crc32c_combine(crc1, crc2, len2): the checksum of A followed by B
\* from the checksums of A and of B and the length of B.
crc32c_combine(crc1, crc2, len2) ==
    IF len2 = 0 THEN crc1 ELSE Xor32(ZeroBytes(crc1, len2), crc2)

(***************************************************************************)
(* The program's state.                                                    *)
(***************************************************************************)
VARIABLES
    threads,      \* args.threads = pool.thread_count()
    fill_zero,    \* args.fill_zero
    paths,        \* args.paths: each path stands as the bytes of its file
    stdin,        \* the lines of stdin
    stdin_pos,    \* how many of them read_line has returned
    pc,           \* where main is
    path_idx,     \* the for loop's position in args.paths, from 1
    start,        \* parallel_read: the cursor
    crc32c,       \* parallel_read: the running checksum
    file_size,    \* parallel_read: metadata().size()
    vec,          \* parallel_read: the round's result slots, by job index
    queue,        \* the pool's channel: job indices sent and not taken yet
    worker,       \* each pool thread's job and position in it
    tls,          \* each pool thread's TLS buffer
    line,         \* main: the String read_line appends to
    stdin_crc,    \* main: the stdin loop's crc32c
    stdout,       \* the lines printed
    exit,         \* main's result once it has returned
    rlog,         \* history: what read_at returned at each offset of this file
    rounds        \* history: rounds folded for this file

vars == <<threads, fill_zero, paths, stdin, stdin_pos, pc, path_idx, start, crc32c,
          file_size, vec, queue, worker, tls, line, stdin_crc, stdout, exit,
          rlog, rounds>>

Files(maxLen) == UNION {[1..n -> ByteVals] : n \in 0..maxLen}
Lines == {<<LineFeed>>, <<255, LineFeed>>}
Inputs == UNION {[1..n -> Lines] : n \in 0..MaxLines}

RECURSIVE TotalLen(_)
TotalLen(p) == IF p = <<>> THEN 0 ELSE Len(Head(p)) + TotalLen(Tail(p))

Threads == 1..threads
Jobs == 0..(threads - 1)

\* A pool thread waiting for a job.
Idle == [job |-> -1, phase |-> "idle", file |-> 0, offset |-> 0, n |-> 0]

\* The file parallel_read is reading.
File == paths[path_idx]

\* The bytes the file holds from offset on, at most a block of them.
Avail(file, offset) ==
    IF offset >= Len(file) THEN 0 ELSE Min(Len(file) - offset, BLOCK_SIZE)

Ok(len, crc, finished) == [ok |-> TRUE, len |-> len, crc |-> crc, fin |-> finished]
Err(offset) == [ok |-> FALSE, at |-> offset]

\* main's result: what it returned, and for a failed read the offset of the
\* read whose error it is.
Returned(what, offset) == [what |-> what, at |-> offset]
Running == Returned("running", -1)

\* The state when main starts, for an invocation with the paths of P or,
\* with no path, one of the inputs of I on stdin.
InitWith(P, I) ==
    /\ threads \in 1..MaxThreads
    /\ fill_zero \in BOOLEAN
    /\ \/ /\ paths \in P
          /\ stdin = <<>>
       \/ /\ paths = <<>>
          /\ stdin \in I
    /\ stdin_pos = 0
    /\ pc = "for"
    /\ path_idx = 1
    /\ start = 0
    /\ crc32c = <<0, 0>>
    /\ file_size = 0
    /\ vec = <<>>
    /\ queue = <<>>
    /\ worker = [t \in 1..threads |-> Idle]
    /\ tls = [t \in 1..threads |-> [k \in 1..BLOCK_SIZE |-> 0]]
    /\ line = <<>>
    /\ stdin_crc = <<0, 0>>
    /\ stdout = <<>>
    /\ exit = Running
    /\ rlog = <<>>
    /\ rounds = 0

\* One path, of any file up to MaxFileLen bytes; or stdin.
Init == InitWith({<<f>> : f \in Files(MaxFileLen)}, Inputs)

\* Several paths, of files of MaxMultiBytes bytes together; or stdin.
InitMain ==
    InitWith({p \in UNION {[1..n -> Files(MaxMultiBytes)] : n \in 2..MaxPaths} :
                 TotalLen(p) <= MaxMultiBytes}, Inputs)

(***************************************************************************)
(* parallel_read's pure parts.                                             *)
(***************************************************************************)
\* Line 45: the offset job i reads at.
JobOffsetFromOne(s, i) == s + (i + 1) * BLOCK_SIZE

JobOffsetUnscaled(s, i) == s + i

JobOffset(s, i) == s + i * BLOCK_SIZE

\* Line 48: the buffer after read_at has placed n bytes of the file, taken
\* from offset on, at its front.
AfterRead(buf, file, offset, n) ==
    [k \in 1..BLOCK_SIZE |-> IF k <= n THEN file[offset + k] ELSE buf[k]]

\* Expect filling every block below the file size up to a whole block.
ExpectWholeBlock(fz, offset, size) ==
    IF fz /\ offset < size THEN BLOCK_SIZE ELSE 0

\* Lines 51-53: the length fill_zero brings a read up to (0: no filling).
Expect(fz, offset, size) ==
    IF fz /\ offset < size THEN Min(size - offset, BLOCK_SIZE) ELSE 0

\* FilledLen without line 56: the zeros are written, the length is not raised.
FilledLenKeepsN(n, expect) == n

\* Lines 54-57: the length the job reports.
FilledLen(n, expect) == IF n < expect THEN expect ELSE n

\* Line 55: buf[n..expect].fill(0).
\* The length raised to expect with the buffer left as it was.
AfterFillNothing(buf, n, expect) == buf

AfterFill(buf, n, expect) ==
    [k \in 1..BLOCK_SIZE |-> IF n < k /\ k <= expect THEN 0 ELSE buf[k]]

\* Line 60: a block is terminal when it is not a whole block.
TerminalEmpty(n) == n = 0

Terminal(n) == n # BLOCK_SIZE

\* JobResult checksumming the whole buffer, not its first n bytes.
JobResultWholeBuf(buf, n) == Ok(n, crc32c_of(buf), Terminal(n))

\* Lines 59-60: the job's result from its buffer and length.
JobResult(buf, n) == Ok(n, crc32c_of(SubSeq(buf, 1, n)), Terminal(n))

\* FoldStep taking the accumulated length for the length of the second part.
FoldStepLenA(a, b) ==
    IF a.fin THEN a
    ELSE IF b.ok THEN Ok(a.len + b.len, crc32c_combine(a.crc, b.crc, a.len), b.fin)
    ELSE b

\* FoldStep passing over a failed read.
FoldStepSkipErr(a, b) ==
    IF a.fin THEN a
    ELSE IF b.ok THEN Ok(a.len + b.len, crc32c_combine(a.crc, b.crc, b.len), b.fin)
    ELSE a

\* FoldStep that goes on folding after a terminal result.
FoldStepNoStop(a, b) ==
    IF b.ok THEN Ok(a.len + b.len, crc32c_combine(a.crc, b.crc, b.len), b.fin)
    ELSE b

\* FoldStep matching on the slot before it looks at the finished flag.
FoldStepErrFirst(a, b) ==
    IF ~b.ok THEN b
    ELSE IF a.fin THEN a
    ELSE Ok(a.len + b.len, crc32c_combine(a.crc, b.crc, b.len), b.fin)

\* Lines 68-79: one step of the fold, from the accumulator a and slot b.
FoldStep(a, b) ==
    IF a.fin THEN a
    ELSE IF b.ok THEN Ok(a.len + b.len, crc32c_combine(a.crc, b.crc, b.len), b.fin)
    ELSE b

\* Lines 66-80: try_fold over the slots in index order; the first Err ends it.
RECURSIVE TryFold(_, _, _)
TryFold(v, i, a) ==
    IF i \notin DOMAIN v \/ ~a.ok THEN a
    ELSE TryFold(v, i + 1, FoldStep(a, v[i]))

FoldVec(v) == TryFold(v, 0, Ok(0, <<0, 0>>, FALSE))

(***************************************************************************)
(* parallel_read as a function of the file and of what each read_at        *)
(* returns: n bytes, or -1 for a failure.                                  *)
(***************************************************************************)
\* Lines 46-60: a job's result when its read_at at offset returns n.
BlockResult(file, fz, offset, n) ==
    IF n < 0 THEN Err(offset)
    ELSE LET expect == Expect(fz, offset, Len(file))
             m == FilledLen(n, expect)
             data == [k \in 1..m |-> IF k <= n THEN file[offset + k] ELSE 0]
         IN Ok(m, crc32c_of(data), Terminal(m))

\* What read_at returns at offset: what the log holds for it, and for an
\* offset not in the log the default d, cut to the bytes the file holds.
ReadOutcome(file, log, d, offset) ==
    IF offset \in DOMAIN log THEN log[offset]
    ELSE IF d < 0 THEN d
    ELSE Min(d, Avail(file, offset))

\* Lines 39-64: the slots of the round that starts at s, with T workers.
RoundVec(file, fz, T, s, log, d) ==
    [i \in 0..(T - 1) |->
        BlockResult(file, fz, JobOffset(s, i),
                    ReadOutcome(file, log, d, JobOffset(s, i)))]

\* Lines 38-86: the loop from cursor s and running checksum crc; the result
\* is Err(offset), or the checksum returned and the final cursor.
RECURSIVE ParallelRead(_, _, _, _, _, _, _)
ParallelRead(file, fz, T, s, crc, log, d) ==
    LET r == FoldVec(RoundVec(file, fz, T, s, log, d)) IN
    IF ~r.ok THEN r
    ELSE IF r.fin
    THEN [ok |-> TRUE, crc |-> crc32c_combine(crc, r.crc, r.len), len |-> s + r.len]
    ELSE ParallelRead(file, fz, T, s + r.len,
                      crc32c_combine(crc, r.crc, r.len), log, d)

(***************************************************************************)
(* main and parallel_read.                                                 *)
(***************************************************************************)
\* Locals with the checksum preset to all ones, as the CRC register is.
LocalsAllOnes == [start |-> 0, crc32c |-> <<Half - 1, Half - 1>>]

\* Locals that outlive the call: the cursor and checksum of the file before.
LocalsCarried == [start |-> start, crc32c |-> crc32c]

\* Lines 32-33: the cursor and the running checksum a file starts with.
Locals == [start |-> 0, crc32c |-> <<0, 0>>]

\* SlotOf choosing the slot by the thread that runs the job.
SlotOfThread(i, t) == t - 1

\* Lines 43-46: the slot job i's result is stored in, whichever thread t
\* runs it: r is the i-th element of vec.iter_mut().
SlotOf(i, t) == i

\* Line 109: {:08X}, the eight upper-case hexadecimal digits of a u32.
HexDigits == <<"0", "1", "2", "3", "4", "5", "6", "7",
               "8", "9", "A", "B", "C", "D", "E", "F">>
Hex4(h) == <<HexDigits[(h \div 4096) + 1], HexDigits[((h \div 256) % 16) + 1],
             HexDigits[((h \div 16) % 16) + 1], HexDigits[(h % 16) + 1]>>
Format08X(crc) == Hex4(crc[1]) \o Hex4(crc[2])

\* Line 107: open the next path; a failure returns from main.
OpenPath ==
    /\ pc = "for"
    /\ path_idx <= Len(paths)
    /\ \E opened \in BOOLEAN :
          IF opened THEN /\ pc' = "parallel_read"
                         /\ exit' = exit
          ELSE /\ pc' = "exit"
               /\ exit' = Returned("open failed", -1)
    /\ UNCHANGED <<threads, fill_zero, paths, stdin, stdin_pos, path_idx,
                   start, crc32c, file_size, vec, queue, worker, tls, line,
                   stdin_crc, stdout, rlog, rounds>>

\* Lines 32-37: parallel_read's locals; a metadata failure returns from
\* parallel_read and, by the ? of line 108, from main.
Begin ==
    /\ pc = "parallel_read"
    /\ start' = Locals.start
    /\ crc32c' = Locals.crc32c
    /\ \E meta \in BOOLEAN :
          IF meta THEN /\ pc' = "loop"
                       /\ exit' = exit
                       /\ file_size' = Len(File)
          ELSE /\ pc' = "exit"
               /\ exit' = Returned("metadata failed", -1)
               /\ file_size' = file_size
    /\ rlog' = <<>>
    /\ rounds' = 0
    /\ UNCHANGED <<threads, fill_zero, paths, stdin, stdin_pos, path_idx, vec,
                   queue, worker, tls, line, stdin_crc, stdout>>

\* Lines 39-44: a round's slots, each Ok((0, 0, true)), and one job per slot
\* sent to the pool in index order.
Dispatch ==
    /\ pc = "loop"
    /\ vec' = [i \in Jobs |-> Ok(0, <<0, 0>>, TRUE)]
    /\ queue' = [k \in 1..threads |-> k - 1]
    /\ pc' = "scoped"
    /\ UNCHANGED <<threads, fill_zero, paths, stdin, stdin_pos, path_idx,
                   start, crc32c, file_size, worker, tls, line, stdin_crc,
                   stdout, exit, rlog, rounds>>

\* A pool thread with no job receives the oldest job of the channel;
\* line 45: the job's offset.
TakeJob(t) ==
    /\ pc = "scoped"
    /\ worker[t].phase = "idle"
    /\ queue # <<>>
    /\ worker' = [worker EXCEPT ![t] =
                     [job |-> Head(queue), phase |-> "taken", file |-> path_idx,
                      offset |-> JobOffset(start, Head(queue)), n |-> 0]]
    /\ queue' = Tail(queue)
    /\ UNCHANGED <<threads, fill_zero, paths, stdin, stdin_pos, pc, path_idx,
                   start, crc32c, file_size, vec, tls, line, stdin_crc, stdout,
                   exit, rlog, rounds>>

\* One buffer for the whole pool.
BufShared(t) == 1

\* Lines 27-29, 46: TLS.with hands pool thread t its own buffer.
BufOf(t) == t

\* Lines 46-50: read_at into the thread's buffer. The read returns any
\* number of the bytes the file holds there, or fails: then the job ends,
\* its slot holding the error.
ReadAt(t) ==
    /\ worker[t].phase = "taken"
    /\ LET w == worker[t] IN
       \/ \E n \in 0..Avail(paths[w.file], w.offset) :
             /\ tls' = [tls EXCEPT ![BufOf(t)] =
                           AfterRead(tls[BufOf(t)], paths[w.file], w.offset, n)]
             /\ worker' = [worker EXCEPT ![t] = [w EXCEPT !.phase = "read", !.n = n]]
             /\ rlog' = [o \in DOMAIN rlog \cup {w.offset} |->
                            IF o = w.offset THEN n ELSE rlog[o]]
             /\ vec' = vec
       \/ /\ vec' = [vec EXCEPT ![SlotOf(w.job, t)] = Err(w.offset)]
          /\ worker' = [worker EXCEPT ![t] = Idle]
          /\ rlog' = [o \in DOMAIN rlog \cup {w.offset} |->
                         IF o = w.offset THEN -1 ELSE rlog[o]]
          /\ tls' = tls
    /\ UNCHANGED <<threads, fill_zero, paths, stdin, stdin_pos, pc, path_idx,
                   start, crc32c, file_size, queue, line, stdin_crc, stdout,
                   exit, rounds>>

\* Lines 51-61: fill with zeros, checksum the buffer's first n bytes, and
\* store the result in the job's slot.
Complete(t) ==
    /\ worker[t].phase = "read"
    /\ LET w == worker[t]
           expect == Expect(fill_zero, w.offset, file_size)
           n == FilledLen(w.n, expect)
           buf == AfterFill(tls[BufOf(t)], w.n, expect)
       IN /\ tls' = [tls EXCEPT ![BufOf(t)] = buf]
          /\ vec' = [vec EXCEPT ![SlotOf(w.job, t)] = JobResult(buf, n)]
    /\ worker' = [worker EXCEPT ![t] = Idle]
    /\ UNCHANGED <<threads, fill_zero, paths, stdin, stdin_pos, pc, path_idx,
                   start, crc32c, file_size, queue, line, stdin_crc, stdout,
                   exit, rlog, rounds>>

\* A join that waits for the queue to drain, not for the jobs to end.
JoinedQueueEmpty == queue = <<>>

\* Line 64: pool.scoped returns when every job of the round has ended.
Joined == queue = <<>> /\ \A t \in Threads : worker[t].phase = "idle"

\* Lines 66-85: fold the slots, then the round into the running checksum; an
\* Err leaves parallel_read and main, a terminal block ends the file.
FoldRound ==
    /\ pc = "scoped"
    /\ Joined
    /\ LET r == FoldVec(vec) IN
       IF r.ok
       THEN /\ crc32c' = crc32c_combine(crc32c, r.crc, r.len)
            /\ start' = start + r.len
            /\ pc' = IF r.fin THEN "println" ELSE "loop"
            /\ exit' = exit
       ELSE /\ pc' = "exit"
            /\ exit' = Returned("read failed", r.at)
            /\ UNCHANGED <<crc32c, start>>
    /\ rounds' = rounds + 1
    /\ UNCHANGED <<threads, fill_zero, paths, stdin, stdin_pos, path_idx,
                   file_size, vec, queue, worker, tls, line, stdin_crc, stdout,
                   rlog>>

\* Line 109: print the file's checksum and go on to the next path.
Println ==
    /\ pc = "println"
    /\ stdout' = Append(stdout, <<crc32c, path_idx>>)
    /\ path_idx' = path_idx + 1
    /\ pc' = "for"
    /\ UNCHANGED <<threads, fill_zero, paths, stdin, stdin_pos, start, crc32c,
                   file_size, vec, queue, worker, tls, line, stdin_crc, exit,
                   rlog, rounds>>

\* Lines 110-114, 128: after the last path main returns Ok, or turns to
\* stdin when no path was given.
ForEnd ==
    /\ pc = "for"
    /\ path_idx > Len(paths)
    /\ IF paths = <<>>
       THEN /\ pc' = "stdin"
            /\ exit' = exit
            /\ stdin_crc' = <<0, 0>>
            /\ line' = <<>>
       ELSE /\ pc' = "exit"
            /\ exit' = Returned("ok", -1)
            /\ UNCHANGED <<stdin_crc, line>>
    /\ UNCHANGED <<threads, fill_zero, paths, stdin, stdin_pos, path_idx,
                   start, crc32c, file_size, vec, queue, worker, tls, stdout,
                   rlog, rounds>>

\* Lines 115-126: read_line appends the next line of stdin to `line`, and
\* `line` is appended to the checksum; at end of input the checksum is
\* printed; a failed read returns from main.
ReadLine ==
    /\ pc = "stdin"
    /\ \/ /\ stdin_pos < Len(stdin)
          /\ line' = line \o stdin[stdin_pos + 1]
          /\ stdin_pos' = stdin_pos + 1
          /\ stdin_crc' = crc32c_append(stdin_crc, line')
          /\ UNCHANGED <<pc, exit, stdout>>
       \/ /\ stdin_pos = Len(stdin)
          /\ stdout' = Append(stdout, <<stdin_crc, 0>>)
          /\ pc' = "exit"
          /\ exit' = Returned("ok", -1)
          /\ UNCHANGED <<line, stdin_pos, stdin_crc>>
       \/ /\ pc' = "exit"
          /\ exit' = Returned("read stdin failed", -1)
          /\ UNCHANGED <<line, stdin_pos, stdin_crc, stdout>>
    /\ UNCHANGED <<threads, fill_zero, paths, stdin, path_idx, start, crc32c,
                   file_size, vec, queue, worker, tls, rlog, rounds>>

Next ==
    \/ OpenPath
    \/ Begin
    \/ Dispatch
    \/ \E t \in Threads : TakeJob(t)
    \/ \E t \in Threads : ReadAt(t)
    \/ \E t \in Threads : Complete(t)
    \/ FoldRound
    \/ Println
    \/ ForEnd
    \/ ReadLine

Spec == Init /\ [][Next]_vars

SpecMain == InitMain /\ [][Next]_vars

(***************************************************************************)
(* Properties.                                                             *)
(***************************************************************************)
\* Every read of this file so far returned all the bytes the file holds at
\* its offset, up to a block.
FullReads == \A o \in DOMAIN rlog : rlog[o] = Avail(File, o)

\* No read of this file has failed so far.
NoReadError == \A o \in DOMAIN rlog : rlog[o] >= 0

\* Some read of this file returned fewer bytes than the file holds there.
ShortRead == \E o \in DOMAIN rlog : rlog[o] >= 0 /\ rlog[o] < Avail(File, o)

\* parallel_read has returned: Ok (main is about to print) or a read error.
ReadReturned == pc = "println" \/ (pc = "exit" /\ exit.what = "read failed")

\* What it returned.
RunResult ==
    IF pc = "println" THEN [ok |-> TRUE, crc |-> crc32c, len |-> start]
    ELSE Err(exit.at)

\* What a read at an offset the run did not read may do: fail, return
\* nothing, return all there is.
Defaults == {-1, 0, BLOCK_SIZE}

\* One left-to-right fold over the blocks of the file, from offset o on.
RECURSIVE BlockFold(_, _, _)
BlockFold(file, o, crc) ==
    IF o >= Len(file) THEN crc
    ELSE LET n == Avail(file, o) IN
         BlockFold(file, o + BLOCK_SIZE,
                   crc32c_combine(crc, crc32c_of(SubSeq(file, o + 1, o + n)), n))

\* C1: when every read returned all the data there is and none failed, the
\* checksum parallel_read returns is the CRC32C of one sequential pass over
\* the file's bytes, and is what one left-to-right fold over the file's
\* blocks gives.
C1_SequentialChecksum ==
    (pc = "println" /\ FullReads) =>
        /\ crc32c = crc32c_of(File)
        /\ crc32c = BlockFold(File, 0, <<0, 0>>)

\* A file of several rounds, the last block partial, read by two workers.
C1_Witness ==
    /\ pc = "println" /\ FullReads
    /\ threads = 2 /\ rounds = 2
    /\ Len(File) % BLOCK_SIZE # 0
    /\ crc32c # <<0, 0>>

\* C2: whatever the reads return, parallel_read's result (the checksum and
\* the length consumed, or the error) with this run's thread count is the
\* result with every other thread count N2 on the same file under the same
\* read behaviour: the reads of this run as logged, any behaviour d for an
\* offset this run did not read.
C2_ThreadCountIndependent ==
    ReadReturned =>
        \A N2 \in 1..MaxThreads : \A d \in Defaults :
            RunResult = ParallelRead(File, fill_zero, N2, 0, <<0, 0>>, rlog, d)

\* Two workers, a short read that ended the file early.
C2_Witness ==
    /\ pc = "println"
    /\ threads = 2
    /\ ~fill_zero
    /\ 0 < start /\ start < Len(File)

\* Job i of the current round has ended.
Ended(i) ==
    /\ pc = "scoped"
    /\ \A k \in 1..Len(queue) : queue[k] # i
    /\ \A t \in Threads : worker[t].job # i

\* C3: during a round, whichever threads ran which jobs and in whatever
\* order they ended, the slot of an ended job holds the result of the read at
\* that job's own offset and the slot of a job not ended is untouched; so at
\* the join the fold over the slots is the fold over the blocks in offset
\* order.
C3_SlotsByOffset ==
    pc = "scoped" =>
        /\ \A i \in Jobs :
              vec[i] = IF Ended(i)
                       THEN BlockResult(File, fill_zero, JobOffset(start, i),
                                        rlog[JobOffset(start, i)])
                       ELSE Ok(0, <<0, 0>>, TRUE)
        /\ Joined =>
              FoldVec(vec) = FoldVec(RoundVec(File, fill_zero, threads, start, rlog, 0))

\* Job 1 has ended with data while job 0, on thread 2, is still running.
C3_Witness ==
    /\ pc = "scoped"
    /\ threads = 2
    /\ Ended(1) /\ vec[1].ok /\ vec[1].len > 0
    /\ worker[2].job = 0 /\ worker[2].phase = "read"

\* The file's length is a non-zero multiple of threads * BLOCK_SIZE.
AlignedFile == Len(File) > 0 /\ Len(File) % (threads * BLOCK_SIZE) = 0

\* The round after full consumption of such a file has been joined.
C4_ExtraRound ==
    /\ pc = "scoped" /\ Joined
    /\ AlignedFile
    /\ start = Len(File)
    /\ NoReadError

\* C4: for a file whose length is a non-zero multiple of
\* threads * BLOCK_SIZE, in the round after full consumption every result is
\* zero-length and terminal, folding that round changes neither the running
\* checksum nor the cursor and ends the file, and the checksum returned is
\* the sequential checksum of the file.
C4_AlignedFileExtraRound ==
    /\ [](C4_ExtraRound => \A i \in Jobs : vec[i] = Ok(0, <<0, 0>>, TRUE))
    /\ [][C4_ExtraRound =>
            crc32c' = crc32c /\ start' = start /\ pc' = "println"]_vars
    /\ []((pc = "println" /\ AlignedFile /\ FullReads) =>
            start = Len(File) /\ crc32c = crc32c_of(File))

\* Two workers, a file of exactly one full round, the extra round folded.
C4_Witness ==
    /\ pc = "println"
    /\ threads = 2
    /\ Len(File) = threads * BLOCK_SIZE
    /\ FullReads
    /\ rounds = 2
    /\ crc32c # <<0, 0>>

\* Path i has its line on stdout.
Printed(i) == \E k \in 1..Len(stdout) : stdout[k][2] = i

\* C5 (as claimed): when main has returned, every path other than the one
\* whose open, metadata or read failed has been processed and has its line
\* printed.
C5_ErrorDoesNotStopLaterPaths ==
    (pc = "exit" /\ paths # <<>>) =>
        \A i \in 1..Len(paths) :
            Printed(i) \/ (i = path_idx /\ exit.what # "ok")

\* The round has been joined and the read of some worker has failed.
SomeReadFailed == pc = "scoped" /\ Joined /\ \E i \in Jobs : ~vec[i].ok

\* The round has been joined and the read of worker i has failed, every
\* worker below i having returned a whole block.
FailedFirst(i) ==
    /\ pc = "scoped" /\ Joined
    /\ ~vec[i].ok
    /\ \A j \in 0..(i - 1) : vec[j].ok /\ ~vec[j].fin

\* C6 (as claimed): whenever the read of any worker of a round has failed,
\* whatever the other workers returned, parallel_read returns an error of
\* that round and no checksum.
C6_AnyReadErrorReturned ==
    [][SomeReadFailed =>
          /\ pc' = "exit"
          /\ exit'.what = "read failed"
          /\ \E i \in Jobs : ~vec[i].ok /\ exit'.at = vec[i].at]_vars

\* C6 (amended): when the read of worker i has failed and every worker of
\* lower index in the round returned a whole block, parallel_read returns
\* that error and no checksum: nothing is printed, and main having returned,
\* no further round is dispatched and no job runs.
C6_FirstReadErrorReturned ==
    /\ [][\A i \in Jobs : FailedFirst(i) =>
             /\ pc' = "exit"
             /\ exit' = Returned("read failed", vec[i].at)
             /\ stdout' = stdout]_vars
    /\ [](pc = "exit" => Joined)
    /\ [][pc = "exit" => pc' = "exit" /\ vec' = vec /\ queue' = queue]_vars

\* Two workers: worker 0 read a whole block, worker 1 failed, main returned
\* worker 1's error.
C6_Witness ==
    /\ pc = "exit"
    /\ exit.what = "read failed"
    /\ threads = 2
    /\ vec[0].ok /\ ~vec[0].fin /\ vec[0].len = BLOCK_SIZE
    /\ ~vec[1].ok
    /\ exit = Returned("read failed", vec[1].at)

\* C7: for a file whose size is no multiple of BLOCK_SIZE, read with full
\* reads, parallel_read returns the same checksum and consumes the same
\* length as with the other fill_zero setting and the same thread count.
C7_FillZeroSameAsPlain ==
    (pc = "println" /\ FullReads /\ Len(File) % BLOCK_SIZE # 0) =>
        RunResult = ParallelRead(File, ~fill_zero, threads, 0, <<0, 0>>,
                                 <<>>, BLOCK_SIZE)

\* fill_zero on, two workers, a file of more than a block with a partial
\* last block.
C7_Witness ==
    /\ pc = "println" /\ FullReads
    /\ fill_zero
    /\ threads = 2
    /\ Len(File) % BLOCK_SIZE # 0
    /\ Len(File) > BLOCK_SIZE

\* C8: with fill_zero on, whatever lengths the reads return, the result of
\* a block read below the file size has length
\* min(file_size - offset, BLOCK_SIZE) and is terminal exactly when that is
\* less than BLOCK_SIZE; and when parallel_read returns Ok the cursor is the
\* file size queried before reading.
C8_FillZeroCoversFile ==
    fill_zero =>
        /\ pc = "scoped" =>
              \A i \in Jobs :
                  LET offset == JobOffset(start, i) IN
                  (Ended(i) /\ vec[i].ok /\ offset < file_size) =>
                      /\ vec[i].len = Min(file_size - offset, BLOCK_SIZE)
                      /\ vec[i].fin = (vec[i].len < BLOCK_SIZE)
        /\ pc = "println" => start = file_size /\ file_size = Len(File)

\* fill_zero on, a read that returned less than the file holds, and the
\* whole of a file of more than a block folded.
C8_Witness ==
    /\ pc = "println"
    /\ fill_zero
    /\ ShortRead
    /\ Len(File) > BLOCK_SIZE
    /\ start = Len(File)

\* The bytes of a sequence of lines, one after another.
RECURSIVE Flatten(_)
Flatten(ls) == IF ls = <<>> THEN <<>> ELSE Head(ls) \o Flatten(Tail(ls))

\* C9 (as claimed): with no path, the checksum printed is the CRC32C of all
\* the bytes of stdin, each line taken once, in order.
C9_StdinChecksumOfAllBytes ==
    (pc = "exit" /\ exit.what = "ok" /\ paths = <<>>) =>
        stdout = << <<crc32c_of(Flatten(stdin)), 0>> >>

\* C10: the files are processed one at a time in argument order: the lines
\* printed are those of paths 1, 2, ... in order, a job that runs or waits
\* belongs to the file main is at; every file starts at cursor 0 and
\* checksum 0, and what parallel_read returns is what it returns for that
\* file alone under the same reads, whatever was processed before it.
C10_FilesSerialIndependent ==
    /\ paths # <<>> =>
          /\ Len(stdout) = path_idx - 1
          /\ \A k \in 1..Len(stdout) : stdout[k][2] = k
    /\ \A t \in Threads :
          worker[t].phase # "idle" => pc = "scoped" /\ worker[t].file = path_idx
    /\ queue # <<>> => pc = "scoped"
    /\ (pc = "loop" /\ rounds = 0) => start = 0 /\ crc32c = <<0, 0>>
    /\ ReadReturned =>
          \A d \in Defaults :
              RunResult = ParallelRead(File, fill_zero, threads, 0, <<0, 0>>, rlog, d)

\* The second path's checksum about to be printed, the first path's file not
\* empty and its line printed, a buffer still holding a byte of it.
C10_Witness ==
    /\ pc = "println"
    /\ path_idx = 2
    /\ Len(stdout) = 1 /\ stdout[1][1] # <<0, 0>>
    /\ Len(paths[1]) > 0
    /\ File # paths[1]
    /\ \E t \in Threads : tls[t][1] # 0 /\ rlog[0] = 0

\* C11: an empty file takes one round, whose first result is zero-length
\* and terminal; parallel_read returns checksum 0 with the cursor at 0, and
\* the line printed for it reads 00000000.
C11_EmptyFile ==
    /\ (pc = "println" /\ Len(File) = 0) =>
          /\ rounds = 1
          /\ vec[0] = Ok(0, <<0, 0>>, TRUE)
          /\ crc32c = <<0, 0>> /\ start = 0
    /\ \A k \in 1..Len(stdout) :
          (stdout[k][2] > 0 /\ Len(paths[stdout[k][2]]) = 0) =>
              Format08X(stdout[k][1]) = <<"0", "0", "0", "0", "0", "0", "0", "0">>

\* The line of an empty file printed, with two workers and fill_zero on.
C11_Witness ==
    /\ paths = << <<>> >>
    /\ threads = 2 /\ fill_zero
    /\ Len(stdout) = 1
    /\ rounds = 1

\* The sum of the lengths of slots 0..k.
RECURSIVE SumLen(_, _)
SumLen(v, k) == IF k < 0 THEN 0 ELSE v[k].len + SumLen(v, k - 1)

\* Slot k is the terminal result the fold takes in: it is Ok and terminal,
\* and every slot below it is Ok and not terminal.
TakenTerminal(v, k) ==
    /\ v[k].ok /\ v[k].fin
    /\ \A j \in 0..(k - 1) : v[j].ok /\ ~v[j].fin

\* Contents a slot above the terminal one may be given.
Replacements ==
    {Err(0), Ok(BLOCK_SIZE, <<1, 1>>, FALSE), Ok(1, <<Half - 1, 0>>, TRUE)}

\* C12: once the fold has taken in the terminal result of slot k, the slots
\* above k contribute nothing, whatever they hold: the aggregate is the fold
\* of slots 0..k alone, its length the sum of their lengths and its flag
\* true; the cursor advances by just that sum.
C12_NothingAfterTerminal ==
    /\ (pc = "scoped" /\ Joined) =>
          \A k \in Jobs :
             TakenTerminal(vec, k) =>
                LET r == FoldVec(vec) IN
                /\ r.ok /\ r.fin
                /\ r.len = SumLen(vec, k)
                /\ r = FoldVec([i \in 0..k |-> vec[i]])
                /\ \A x \in Replacements :
                      FoldVec([i \in Jobs |-> IF i > k THEN x ELSE vec[i]]) = r
    /\ pc = "println" =>
          \E k \in Jobs :
             /\ TakenTerminal(vec, k)
             /\ start = (rounds - 1) * threads * BLOCK_SIZE + SumLen(vec, k)

\* A round folded whose slot 0 is terminal while slot 1 holds a whole block
\* of data: the block is left out of the checksum and the cursor.
C12_Witness ==
    /\ pc = "println"
    /\ threads = 2
    /\ vec[0].ok /\ vec[0].fin
    /\ vec[1].ok /\ vec[1].len = BLOCK_SIZE
    /\ start = vec[0].len

\* The offsets of the blocks folded into the running checksum so far.
FoldedOffsets == {o \in DOMAIN rlog : o < start}

\* The jobs of the round that are waiting in the queue.
Queued == {queue[k] : k \in 1..Len(queue)}

\* C13: when a round starts, start is the number of bytes folded so far and
\* a multiple of T * BLOCK_SIZE; worker i reads at start + i * BLOCK_SIZE.
\* The blocks folded are the whole blocks 0, 1, 2, ... below start, each
\* once, and no offset is read a second time.
C13_CursorAndOffsets ==
    /\ pc \in {"loop", "scoped"} =>
          /\ start = rounds * threads * BLOCK_SIZE
          /\ start % (threads * BLOCK_SIZE) = 0
          /\ FoldedOffsets = {b * BLOCK_SIZE : b \in 0..(rounds * threads - 1)}
          /\ \A o \in FoldedOffsets :
                /\ rlog[o] >= 0
                /\ FilledLen(rlog[o], Expect(fill_zero, o, file_size)) = BLOCK_SIZE
          /\ Cardinality(FoldedOffsets) * BLOCK_SIZE = start
    /\ pc = "scoped" =>
          /\ \A t \in Threads :
                worker[t].phase # "idle" =>
                   /\ worker[t].job \in Jobs
                   /\ worker[t].offset = start + worker[t].job * BLOCK_SIZE
                   /\ worker[t].job \notin Queued
                   /\ worker[t].phase = "taken" => worker[t].offset \notin DOMAIN rlog
                   /\ \A u \in Threads \ {t} :
                         worker[u].phase # "idle" => worker[u].offset # worker[t].offset
          /\ \A k, l \in 1..Len(queue) : queue[k] = queue[l] => k = l
          /\ \A i \in Queued : (start + i * BLOCK_SIZE) \notin DOMAIN rlog
          /\ DOMAIN rlog \subseteq
                {b * BLOCK_SIZE : b \in 0..((rounds + 1) * threads - 1)}

\* The second round of two workers: the job of slot 1 has read at
\* start + BLOCK_SIZE, with start two blocks into the file.
C13_Witness ==
    /\ pc = "scoped"
    /\ threads = 2 /\ rounds = 1
    /\ start = 2 * BLOCK_SIZE
    /\ \E t \in Threads :
          /\ worker[t].phase = "read"
          /\ worker[t].job = 1
          /\ worker[t].offset = 3 * BLOCK_SIZE

\* No pool thread holds a job.
AllIdle == \A t \in Threads : worker[t].phase = "idle"

\* C14: each round is a barrier. The round is left for the fold only when
\* all T jobs have read and ended; outside a round nothing is queued or
\* running; a round is dispatched only once every block read before it has
\* been folded into the cursor; and a running job is a job of the round in
\* progress, so jobs of two rounds never run together.
C14_RoundBarrier ==
    /\ [][(pc = "scoped" /\ pc' # "scoped") =>
             /\ queue = <<>> /\ AllIdle
             /\ \A i \in Jobs : (start + i * BLOCK_SIZE) \in DOMAIN rlog]_vars
    /\ [](pc # "scoped" => (queue = <<>> /\ AllIdle))
    /\ [][(pc = "loop" /\ pc' = "scoped") =>
             /\ \A o \in DOMAIN rlog : o < start
             /\ start' = start /\ crc32c' = crc32c /\ rounds' = rounds
             /\ Len(queue') = threads]_vars
    /\ [](\A t \in Threads :
             worker[t].phase # "idle" =>
                /\ pc = "scoped"
                /\ worker[t].offset >= start
                /\ worker[t].offset < start + threads * BLOCK_SIZE)

\* The second round under way after the first was folded: one job of it
\* has read, the other still waits in the queue.
C14_Witness ==
    /\ pc = "scoped"
    /\ threads = 2 /\ rounds = 1
    /\ queue = <<1>>
    /\ \E t \in Threads : worker[t].phase = "read" /\ worker[t].job = 0

\* The pool threads that hold a job.
Busy == {t \in Threads : worker[t].phase # "idle"}

\* C15: jobs running at the same time use different buffers. A pool thread
\* holds one job at a time and the buffer it uses is its own; from a job's
\* read until its checksum is taken the buffer keeps the bytes the read put
\* there, whatever the other threads do meanwhile.
C15_BufferPerRunningJob ==
    /\ \A t, u \in Busy :
          t # u => (BufOf(t) # BufOf(u) /\ worker[t].job # worker[u].job)
    /\ \A t \in Busy :
          worker[t].phase = "read" =>
             \A k \in 1..worker[t].n :
                tls[BufOf(t)][k] = paths[worker[t].file][worker[t].offset + k]

\* Thread 1 runs the round's second job after its first while thread 2 has
\* never run one: slot 0 holds a whole block that starts with a byte 255,
\* and the buffer of thread 2 is still all zero.
C15_Witness ==
    /\ pc = "scoped"
    /\ threads = 2 /\ rounds = 0
    /\ Len(File) > BLOCK_SIZE /\ File[1] = 255
    /\ Ended(0) /\ vec[0].ok /\ vec[0].len = BLOCK_SIZE
    /\ tls[2] = [k \in 1..BLOCK_SIZE |-> 0]
    /\ worker[1].job = 1 /\ worker[1].phase = "read" /\ worker[1].n > 0
    /\ worker[2].phase = "idle"

\* The rounds of a file of that size read in whole blocks by the pool's
\* threads.
RoundsOf(size) == (size \div (threads * BLOCK_SIZE)) + 1

\* The steps a round takes at most: the dispatch, three for each job (taken
\* from the queue, read, completed) and the fold.
RoundSteps == 3 * threads + 2

\* The steps a pool thread's job still has to take.
StepsLeft(t) ==
    CASE worker[t].phase = "taken" -> 2
      [] worker[t].phase = "read" -> 1
      [] OTHER -> 0

RECURSIVE SumStepsLeft(_)
SumStepsLeft(t) == IF t = 0 THEN 0 ELSE StepsLeft(t) + SumStepsLeft(t - 1)

\* A bound on the steps parallel_read has left: the rounds not yet folded,
\* and within the round in progress the steps its jobs and its fold need.
Rank ==
    (RoundsOf(file_size) - rounds - 1) * RoundSteps +
    (CASE pc = "loop" -> RoundSteps
       [] pc = "scoped" -> 3 * Len(queue) + SumStepsLeft(threads) + 1
       [] OTHER -> 0)

\* Some step of the round is possible: a dispatch, a job to take, a read, or
\* the guard of Complete or of FoldRound holds.
CanStep ==
    \/ ENABLED (Dispatch \/ \E t \in Threads : (TakeJob(t) \/ ReadAt(t)))
    \/ \E t \in Threads : worker[t].phase = "read"
    \/ (pc = "scoped" /\ Joined)

\* C16: parallel_read terminates, and on a file of size S whose reads do
\* not fail and return all the file holds it takes
\* floor(S / (T * BLOCK_SIZE)) + 1 rounds. Inside parallel_read a step is
\* always possible and every step lowers Rank, which stays above 0 there,
\* so the rounds never exceed that number; a round that is not the last
\* holds no terminal result and advances the cursor by T * BLOCK_SIZE, and
\* the last is the first round that holds a terminal result.
C16_RoundsAndTermination ==
    /\ [](pc \in {"loop", "scoped"} => (Rank > 0 /\ CanStep))
    /\ [][(pc \in {"loop", "scoped"} /\ pc' \in {"loop", "scoped"}) =>
             Rank' < Rank]_vars
    /\ [](pc \in {"loop", "scoped"} => rounds < RoundsOf(Len(File)))
    /\ []((pc = "println" /\ FullReads) => rounds = RoundsOf(Len(File)))
    /\ [][(pc = "scoped" /\ pc' = "loop") =>
             /\ start' = start + threads * BLOCK_SIZE
             /\ \A i \in Jobs : vec[i].ok /\ ~vec[i].fin]_vars
    /\ [][(pc = "scoped" /\ pc' = "println") =>
             \E i \in Jobs : vec[i].ok /\ vec[i].fin]_vars

\* A file of five bytes read whole by one worker, block by block: three
\* rounds, the third the terminal one.
C16_Witness ==
    /\ pc = "println" /\ FullReads
    /\ threads = 1
    /\ Len(File) = 2 * BLOCK_SIZE + 1
    /\ rounds = 3
    /\ start = Len(File)

\* The file's bytes [0, m), as far as the file holds them.
Prefix(file, m) == SubSeq(file, 1, Min(m, Len(file)))

\* The round in progress is folded by this step, fill_zero being off.
FoldsPlainRound == pc = "scoped" /\ pc' # "scoped" /\ ~fill_zero

\* The fold of a round whose slot i holds fewer than BLOCK_SIZE bytes returns
\* Ok from parallel_read, with the checksum of the file up to the end of
\* what slot i read.
EndsFileAt(i) ==
    /\ pc' = "println" /\ exit' = exit
    /\ crc32c' = crc32c_of(Prefix(File, start + i * BLOCK_SIZE + vec[i].len))

\* C17 as stated: with fill_zero off, any successful read of fewer than
\* BLOCK_SIZE bytes ends the computation with its round, parallel_read
\* returning Ok with the checksum of the file bytes before the end of that
\* read and no error.
C17_AnyShortReadEndsFile ==
    [][FoldsPlainRound =>
          \A i \in Jobs :
             (vec[i].ok /\ vec[i].len < BLOCK_SIZE) => EndsFileAt(i)]_vars

\* C17: with fill_zero off, a successful read of fewer than BLOCK_SIZE bytes
\* below which every slot of the round holds a whole block ends the
\* computation with its round: parallel_read returns Ok, the cursor at the
\* end of that read and the checksum that of the file bytes before it, also
\* when the file holds more.
C17_FirstShortReadEndsFile ==
    [][FoldsPlainRound =>
          \A i \in Jobs :
             (/\ vec[i].ok /\ vec[i].len < BLOCK_SIZE
              /\ \A j \in 0..(i - 1) : vec[j].ok /\ ~vec[j].fin) =>
                /\ EndsFileAt(i)
                /\ start' = start + i * BLOCK_SIZE + vec[i].len
                /\ start' <= Len(File)]_vars

\* Returned with the second worker's read one byte short of its block and
\* the file holding more bytes after it.
C17_Witness ==
    /\ pc = "println" /\ ~fill_zero
    /\ threads = 2 /\ rounds = 1
    /\ vec[0].ok /\ ~vec[0].fin
    /\ vec[1].ok /\ vec[1].len = BLOCK_SIZE - 1
    /\ start = 2 * BLOCK_SIZE - 1 /\ start < Len(File)

\* The length a job reports for a read of n bytes at that offset of the
\* file: n, raised under fill_zero to what the file holds there, a block at
\* most.
ReportedLen(file, offset, n) ==
    IF fill_zero /\ offset < Len(file) /\ n < Min(Len(file) - offset, BLOCK_SIZE)
    THEN Min(Len(file) - offset, BLOCK_SIZE)
    ELSE n

\* The n bytes the read took from the file, then zeros up to length m.
FreshBytes(file, offset, n, m) ==
    [k \in 1..m |-> IF k <= n THEN file[offset + k] ELSE 0]

\* C18: what a job checksums is what its own read put into the buffer,
\* followed under fill_zero by zeros up to the expected length, whatever
\* the buffer held before from an earlier round or file: so for a job that
\* has read, and for the slot of a job that has completed.
C18_OnlyFreshBytes ==
    /\ \A t \in Busy :
          worker[t].phase = "read" =>
             LET w == worker[t]
                 m == ReportedLen(paths[w.file], w.offset, w.n)
                 fresh == FreshBytes(paths[w.file], w.offset, w.n, m)
                 expect == Expect(fill_zero, w.offset, file_size)
                 buf == AfterFill(tls[BufOf(t)], w.n, expect)
                 r == JobResult(buf, FilledLen(w.n, expect))
             IN /\ r.ok /\ r.len = m
                /\ SubSeq(buf, 1, m) = fresh
                /\ r.crc = crc32c_of(fresh)
    /\ pc = "scoped" =>
          \A i \in Jobs :
             LET o == start + i * BLOCK_SIZE IN
             (Ended(i) /\ o \in DOMAIN rlog /\ vec[i].ok) =>
                /\ rlog[o] >= 0
                /\ vec[i].len = ReportedLen(File, o, rlog[o])
                /\ vec[i].crc =
                      crc32c_of(FreshBytes(File, o, rlog[o], vec[i].len))

\* The one pool thread read the byte 255 of the first file into its buffer;
\* its read of the second file, one byte long, returned nothing, and under
\* fill_zero the job's slot holds the checksum of one zero byte.
C18_Witness ==
    /\ pc = "scoped" /\ path_idx = 2
    /\ threads = 1 /\ fill_zero
    /\ paths[1] = <<255>> /\ Len(paths[2]) = 1
    /\ Len(stdout) = 1
    /\ Ended(0) /\ 0 \in DOMAIN rlog /\ rlog[0] = 0
    /\ vec[0] = Ok(1, crc32c_of(<<0>>), TRUE)

====
